---- MODULE Spec2Model ----
(***************************************************************************)
(* Model of scripts/export-pdf.js: exportPdf() and the top-level           *)
(* exportPdf().catch(...) handler.                                         *)
(*                                                                         *)
(* The pipeline is a chain of awaited calls.  Every awaited call is        *)
(* modelled by a "start" step (the call is made) and a "return" or "throw" *)
(* step (the promise settles), so that the order of calls and completions  *)
(* is observable.  The page (images, fonts, timers) is the environment:    *)
(* it delivers load/error events and fires timers while the script waits.  *)
(*                                                                         *)
(* Time is counted in milliseconds and advances by TickMs.  Computation    *)
(* takes no time: time passes only while the awaited call is in flight     *)
(* and cannot complete yet, and a timer that is due fires before time      *)
(* advances further.                                                       *)
(***************************************************************************)
EXTENDS Integers, Sequences, FiniteSets

\* ------------------------------------------------------------------ bounds
MaxImages == 2        \* <img> elements of the document
MaxBg == 1            \* background-image URLs discovered in the document
MaxPages == 2         \* content length of the document, in printed pages
ElapsedCap == 10500   \* the stopwatch of the timed waits saturates here (ms)
FontsCap == 500       \* the stopwatch of the fonts wait saturates here (ms)
StageCap == 32000     \* the stopwatch of the current wait saturates here (ms)
MaxNumLen == 3        \* characters after "tel:" in an anchor's href
MaxLayers == 2        \* layers of an element's computed background-image

\* ------------------------------------------------------- program constants
ImgTimeoutMs == 5000      \* setTimeout(resolve, 5000) of the <img> wait
BgTimeoutMs == 5000       \* setTimeout(resolve, 5000) of the background wait
SettleMs == 1500          \* setTimeout(resolve, 1500) settling delay
GotoTimeoutMs == 30000    \* page.goto timeout: 30000
PdfWidthMm == 210         \* page.pdf width: '210mm'
PdfHeightMm == 297        \* page.pdf height: '297mm'
PdfMarginMm == 0          \* page.pdf margin: 0 on every side
FailureExitCode == 1      \* process.exitCode = 1

PreferCSSPageSize == TRUE \* page.pdf preferCSSPageSize: true
OutputPath == "dist/Joe-Sturdy-CV.pdf"

VARIABLES
  pc,            \* position of exportPdf / the top-level handler
  inflight,      \* calls whose promise has not settled yet
  pending,       \* the error being propagated ("none", or the step that threw)
  exitCode,      \* process.exitCode: <<>> while undefined, <<n>> once set
  browser,       \* "none", "open", "closed"
  log,           \* history of <<"start"|"end"|"throw", step>>
  errLog,        \* console.error output: <<who logged, error>>
  outLog,        \* console.log output
  faults,        \* calls that the browser / puppeteer made fail
  htmlExists,    \* fs.existsSync(htmlPath)
  files,         \* what is stored at each path written by page.pdf
  nImg,          \* number of <img> elements
  elements,      \* computed background-image of each element: its layers
  links,         \* the <a> elements: href, title, data-phone, inline style
  fontsReady,    \* document.fonts.ready has resolved
  img,           \* state of each <img>
  imgWait,       \* state of the promise made for each <img>
  imgTimer,      \* remaining ms of each <img>'s setTimeout, -1 if none
  bgImg,         \* state of each new Image() of the background wait
  bgWait,        \* state of the promise made for each background URL
  bgTimer,       \* remaining ms of each background URL's setTimeout
  settleTimer,   \* remaining ms of the settling delay's setTimeout
  gotoTimer,     \* remaining ms of page.goto's navigation timeout, -1 if none
  fontsElapsed,  \* ms spent in the fonts wait, -1 before it starts
  timedElapsed,  \* ms spent in the <img> and background waits, -1 before
  stageElapsed   \* ms spent in the current navigation / <img> / background wait

vars == <<pc, inflight, pending, exitCode, browser, log, errLog, outLog,
          faults, htmlExists, files, nImg, elements, links, fontsReady,
          img, imgWait, imgTimer, bgImg, bgWait, bgTimer, settleTimer,
          gotoTimer, fontsElapsed, timedElapsed, stageElapsed>>

ctl == <<pc, inflight, pending, log, faults>>
io == <<exitCode, errLog, outLog, files>>
doc == <<htmlExists, nImg, elements>>
imgs == <<img, imgWait, imgTimer>>
bgs == <<bgImg, bgWait, bgTimer>>
clocks == <<fontsElapsed, timedElapsed, stageElapsed>>

Imgs == 1..MaxImages
Bgs == 1..MaxBg

\* A4 and US Letter, in millimetres (216 x 279 is Letter rounded).
A4 == [w |-> 210, h |-> 297]
Letter == [w |-> 216, h |-> 279]
PageSizes == {A4, Letter}
NoPageSize == [w |-> 0, h |-> 0]

\* ------------------------------------------------------------ control flow
\* The awaited calls of exportPdf in program order, "check" being the
\* synchronous fs.existsSync test and "log" the final console.log.
Order == <<"check", "launch", "newPage", "setViewport", "emulateMediaType",
           "goto", "fonts", "images", "bgImages", "settle", "links", "title",
           "pdf", "log">>

IndexOf(s) == CHOOSE i \in 1..Len(Order) : Order[i] = s

\* The statement that follows statement s when s completes normally; the
\* finally block ("close") follows the last statement of the try block.
NextStep_swapped(s) ==
  IF s = "settle" THEN "pdf"
  ELSE IF s = "pdf" THEN "links"
  ELSE IF s = "title" THEN "log"
  ELSE IF s = "log" THEN "close" ELSE Order[IndexOf(s) + 1]

NextStep(s) == IF s = "log" THEN "close" ELSE Order[IndexOf(s) + 1]

\* Every call of the pipeline is awaited.
Awaited_imagesDropped(s) == s # "images"

Awaited(s) == TRUE

\* The statements inside try { ... }: everything after puppeteer.launch.
InTry_late(s) == s \notin {"check", "launch", "newPage"}

InTry(s) == s \notin {"check", "launch"}

\* Where control goes when statement s throws.
OnThrow_resume(s) == IF InTry(s) THEN NextStep(s) ELSE "rejected"

OnThrow(s) == IF InTry(s) THEN "catch" ELSE "rejected"

\* if (!fs.existsSync(htmlPath)) throw ...
ExistsCheckPasses_skipped(e) == TRUE

ExistsCheckPasses(e) == e

\* catch (error) { console.error(...); throw error; }
CatchRethrows_swallow == FALSE

CatchRethrows == TRUE

\* The exit status of the process: process.exitCode, 0 when it was never set.
ExitStatus == IF exitCode = <<>> THEN 0 ELSE exitCode[1]

\* Calls into puppeteer: each can reject (browser crash, protocol error,
\* navigation timeout, I/O error).
PuppeteerCalls == {"launch", "newPage", "setViewport", "emulateMediaType",
                   "goto", "fonts", "images", "bgImages", "links", "title",
                   "pdf", "close"}

\* Calls that are a single request to the browser, with no wait in the page.
SimpleCalls == {"newPage", "setViewport", "emulateMediaType", "links", "title"}

Min(a, b) == IF a < b THEN a ELSE b

RECURSIVE GCD(_, _)
GCD(a, b) == IF b = 0 THEN a ELSE GCD(b, a % b)

\* Granularity of the clock: the coarsest unit in which every setTimeout
\* delay of the script is a whole number of ticks.
TickMs == GCD(GCD(GCD(ImgTimeoutMs, BgTimeoutMs), SettleMs), GotoTimeoutMs)

\* The page size of the PDF: with preferCSSPageSize, an @page size declared
\* by the document's CSS takes priority over the width/height options.
PdfPageSize_swapped(css) ==
  IF PreferCSSPageSize /\ css # NoPageSize THEN css
  ELSE [w |-> PdfHeightMm, h |-> PdfWidthMm]

PdfPageSize(css) ==
  IF PreferCSSPageSize /\ css # NoPageSize THEN css
  ELSE [w |-> PdfWidthMm, h |-> PdfHeightMm]

\* What is stored at a path: nothing ("absent"), a file of an earlier run
\* ("old"), or the PDF page.pdf wrote, with the document it was rendered
\* from (its declared @page size and its length in pages).
NoFile(kind) ==
  [kind |-> kind, w |-> 0, h |-> 0, margin |-> 0, pages |-> 0, css |-> NoPageSize]

PdfFile(css, n) ==
  [kind |-> "pdf", w |-> PdfPageSize(css).w, h |-> PdfPageSize(css).h,
   margin |-> PdfMarginMm, pages |-> n, css |-> css]

\* ------------------------------------------------------------ strings
\* A string is the sequence of its characters; an attribute is <<>> while
\* absent (getAttribute returns null) and <<value>> once set.
Tel == <<"t", "e", "l", ":">>
Mailto == <<"m", "a", "i", "l", "t", "o", ":">>
Plus == <<"+">>
CallPrefix == <<"C", "a", "l", "l", " ">>
EmailPrefix == <<"E", "m", "a", "i", "l", " ">>

\* String.prototype.startsWith
StartsWith(str, prefix) ==
  Len(str) >= Len(prefix) /\ SubSeq(str, 1, Len(prefix)) = prefix

\* Position of the first occurrence of pat in str, 0 if there is none.
FirstIndexOf(str, pat) ==
  LET hits == {i \in 1..(Len(str) - Len(pat) + 1) :
                 SubSeq(str, i, i + Len(pat) - 1) = pat}
  IN IF hits = {} THEN 0 ELSE CHOOSE i \in hits : \A k \in hits : i <= k

\* String.prototype.replace with a string pattern: the first occurrence only.
ReplaceFirst(str, pat, by) ==
  LET i == FirstIndexOf(str, pat)
  IN IF i = 0 THEN str
     ELSE SubSeq(str, 1, i - 1) \o by \o SubSeq(str, i + Len(pat), Len(str))

\* String.prototype.trim
RECURSIVE TrimStart(_)
TrimStart(str) ==
  IF str # <<>> /\ Head(str) = " " THEN TrimStart(Tail(str)) ELSE str

RECURSIVE TrimEnd(_)
TrimEnd(str) ==
  IF str # <<>> /\ str[Len(str)] = " "
  THEN TrimEnd(SubSeq(str, 1, Len(str) - 1)) ELSE str

Trim(str) == TrimEnd(TrimStart(str))

\* ------------------------------------------------------ link normalization
Anchor(href, title) ==
  [href |-> href, title |-> title, dataPhone |-> <<>>, clickable |-> FALSE]

\* a[href^="tel:"] and a[href^="mailto:"]
IsTelLink(a) == StartsWith(a.href, Tel)
IsMailtoLink(a) == StartsWith(a.href, Mailto)

\* !link.getAttribute('title'): the attribute is absent or empty.
NoTitle_always(a) == TRUE

NoTitle(a) == a.title = <<>> \/ a.title[1] = <<>>

\* phoneNumber.startsWith('+') ? `tel:${phoneNumber}` : `tel:+${phoneNumber}`
NormalizedTel_bare(phoneNumber) == Tel \o phoneNumber

NormalizedTel(phoneNumber) ==
  IF StartsWith(phoneNumber, Plus) THEN Tel \o phoneNumber
  ELSE Tel \o Plus \o phoneNumber

\* The body of telLinks.forEach.
NormalizeTelLink(a) ==
  IF ~IsTelLink(a) THEN a
  ELSE LET phoneNumber == Trim(ReplaceFirst(a.href, Tel, <<>>))
       IN [href |-> NormalizedTel(phoneNumber),
           dataPhone |-> <<phoneNumber>>,
           title |-> IF NoTitle(a) THEN <<CallPrefix \o phoneNumber>> ELSE a.title,
           clickable |-> TRUE]

\* The body of mailtoLinks.forEach.
NormalizeMailtoLink(a) ==
  IF ~IsMailtoLink(a) THEN a
  ELSE [a EXCEPT
          !.title = IF NoTitle(a)
                    THEN <<EmailPrefix \o ReplaceFirst(a.href, Mailto, <<>>)>>
                    ELSE @,
          !.clickable = TRUE]

NormalizeLinks(ls) ==
  [k \in DOMAIN ls |-> NormalizeMailtoLink(NormalizeTelLink(ls[k]))]

\* The contact links of the CV: a phone number, an e-mail address and a
\* profile page.
CvLinks ==
  << Anchor(Tel \o <<"1">>, <<>>),
     Anchor(Mailto \o <<"a">>, << <<"T">> >>),
     Anchor(<<"#">>, <<>>) >>

\* ------------------------------------------------- background discovery
\* The computed background-image of an element is <<"none">> or the list of
\* its layers, each a gradient or a url(...).
Urls == {"a.jpg", "b.jpg"}
NoBackground == <<"none">>

\* bgImage.match(/url\(['"]?([^'"]+)['"]?\)/)[1]: the regular expression is
\* not global, so the match is the first url(...) of the value.
FirstUrl(layers) ==
  layers[CHOOSE i \in 1..Len(layers) :
           /\ layers[i] \in Urls
           /\ \A k \in 1..(i - 1) : layers[k] \notin Urls]

\* bgImage && bgImage !== 'none' && bgImage.includes('url')
HasUrl(layers) ==
  layers # NoBackground /\ \E i \in 1..Len(layers) : layers[i] \in Urls

\* allElements.forEach(...): the URLs pushed to bgImages, in document order.
RECURSIVE Discover(_)
Discover(els) ==
  IF els = <<>> THEN <<>>
  ELSE (IF HasUrl(Head(els)) THEN <<FirstUrl(Head(els))>> ELSE <<>>)
       \o Discover(Tail(els))

\* bgImages: the URLs the background wait discovers and loads.
bgImages == Discover(elements)
nBg == Len(bgImages)

\* Documents whose elements have at most one background image each.
PlainDocs == {[k \in 1..n |-> <<"a.jpg">>] : n \in 0..MaxBg}

\* ------------------------------------------------------------------- Init
NoTimers(S) == [i \in S |-> -1]

\* Once control has left the try block nothing in the page is used any more:
\* the page, its pending promises and its timers are dropped from the state
\* (browser.close() destroys them).
PageDropped ==
  /\ fontsReady' = FALSE
  /\ img' = [i \in Imgs |-> "unloaded"]
  /\ imgWait' = [i \in Imgs |-> "none"]
  /\ imgTimer' = NoTimers(Imgs)
  /\ bgImg' = [j \in Bgs |-> "unloaded"]
  /\ bgWait' = [j \in Bgs |-> "none"]
  /\ bgTimer' = NoTimers(Bgs)
  /\ settleTimer' = -1
  /\ gotoTimer' = -1
  /\ fontsElapsed' = -1
  /\ timedElapsed' = -1
  /\ stageElapsed' = -1

Init ==
  /\ pc = "check"
  /\ inflight = {}
  /\ pending = "none"
  /\ exitCode = <<>>
  /\ browser = "none"
  /\ log = <<>>
  /\ errLog = <<>>
  /\ outLog = <<>>
  /\ faults = {}
  /\ htmlExists \in BOOLEAN
  /\ files \in [{OutputPath} -> {NoFile("absent"), NoFile("old")}]
  /\ nImg \in 0..MaxImages
  /\ elements \in PlainDocs
  /\ links = CvLinks
  /\ fontsReady = FALSE
  /\ img = [i \in Imgs |-> "unloaded"]
  /\ imgWait = [i \in Imgs |-> "none"]
  /\ imgTimer = NoTimers(Imgs)
  /\ bgImg = [j \in Bgs |-> "unloaded"]
  /\ bgWait = [j \in Bgs |-> "none"]
  /\ bgTimer = NoTimers(Bgs)
  /\ settleTimer = -1
  /\ gotoTimer = -1
  /\ fontsElapsed = -1
  /\ timedElapsed = -1
  /\ stageElapsed = -1

\* --------------------------------------------------- call/return machinery
\* The call of statement s is made: its promise is in flight, and control
\* stays at s while it is awaited.
Started(s) ==
  /\ inflight' = inflight \cup {s}
  /\ log' = Append(log, <<"start", s>>)
  /\ pc' = IF Awaited(s) THEN s ELSE NextStep(s)
  /\ UNCHANGED <<pending, faults>>

\* The promise of statement s resolves; the awaiting function resumes at
\* the next statement.
Returned(s) ==
  /\ inflight' = inflight \ {s}
  /\ log' = Append(log, <<"end", s>>)
  /\ pc' = IF pc = s THEN NextStep(s) ELSE pc
  /\ UNCHANGED <<pending, faults>>

\* The promise of statement s rejects; the awaiting function throws at s.
Thrown(s) ==
  /\ inflight' = inflight \ {s}
  /\ log' = Append(log, <<"throw", s>>)
  /\ pc' = IF pc = s THEN OnThrow(s) ELSE pc
  /\ pending' = IF pc = s THEN s ELSE pending

CanStart(s) == pc = s /\ s \notin inflight

\* ------------------------------------------------------ start of the run
\* if (!fs.existsSync(htmlPath)) throw new Error(...)
ExistsCheck ==
  /\ pc = "check"
  /\ pc' = IF ExistsCheckPasses(htmlExists) THEN NextStep("check") ELSE OnThrow("check")
  /\ pending' = IF ExistsCheckPasses(htmlExists) THEN "none" ELSE "check"
  /\ log' = IF ExistsCheckPasses(htmlExists) THEN log
            ELSE Append(log, <<"throw", "check">>)
  /\ UNCHANGED <<inflight, faults, io, doc, links, browser, fontsReady, imgs, bgs,
                 settleTimer, gotoTimer, clocks>>

\* const browser = await puppeteer.launch({...})
StartLaunch ==
  /\ CanStart("launch")
  /\ Started("launch")
  /\ UNCHANGED <<io, doc, links, browser, fontsReady, imgs, bgs, settleTimer, gotoTimer, clocks>>

ReturnLaunch ==
  /\ "launch" \in inflight
  /\ Returned("launch")
  /\ browser' = "open"
  /\ UNCHANGED <<io, doc, links, fontsReady, imgs, bgs, settleTimer, gotoTimer, clocks>>

\* newPage, setViewport, emulateMediaType, the link normalization and the
\* title set: one request to the browser each.  The link normalization
\* rewrites the anchors; document.title is not part of the state.
StartSimple(s) ==
  /\ CanStart(s)
  /\ Started(s)
  /\ UNCHANGED <<io, doc, links, browser, fontsReady, imgs, bgs, settleTimer, gotoTimer, clocks>>

ReturnSimple(s) ==
  /\ s \in inflight
  /\ Returned(s)
  /\ links' = IF s = "links" THEN NormalizeLinks(links) ELSE links
  /\ UNCHANGED <<io, doc, browser, fontsReady, imgs, bgs, settleTimer, gotoTimer, clocks>>

\* await page.goto(fileUrl.href, { waitUntil: 'networkidle0', timeout: 30000 })
\* The navigation timeout page.goto arms.
GotoTimer_long == GotoTimeoutMs + SettleMs

GotoTimer == GotoTimeoutMs

StartGoto ==
  /\ CanStart("goto")
  /\ Started("goto")
  /\ gotoTimer' = GotoTimer
  /\ stageElapsed' = 0
  /\ UNCHANGED <<io, doc, links, browser, fontsReady, imgs, bgs, settleTimer,
                 fontsElapsed, timedElapsed>>

\* Navigation completes: each <img> of the document has loaded, has failed
\* or is still loading, and the fonts are ready or still loading.
ReturnGoto ==
  /\ "goto" \in inflight
  /\ Returned("goto")
  /\ \E st \in [Imgs -> {"loading", "loaded", "broken"}] :
        img' = [i \in Imgs |-> IF i <= nImg THEN st[i] ELSE "unloaded"]
  /\ fontsReady' \in BOOLEAN
  /\ gotoTimer' = -1
  /\ stageElapsed' = -1
  /\ UNCHANGED <<io, doc, links, browser, imgWait, imgTimer, bgs, settleTimer,
                 fontsElapsed, timedElapsed>>

\* The page has not reached network idle when the 30 s are over: page.goto
\* rejects with a TimeoutError.
GotoTimesOut ==
  /\ "goto" \in inflight
  /\ gotoTimer = 0
  /\ faults' = faults \cup {"gotoTimeout"}
  /\ Thrown("goto")
  /\ PageDropped
  /\ UNCHANGED <<io, doc, links, browser>>

\* ---------------------------------------------------------- asset waits
\* A promise that is already settled ignores further resolve/reject calls.
Settle_twice(w, outcome) == IF w = "pending" THEN outcome ELSE "rejected"

Settle(w, outcome) == IF w = "pending" THEN outcome ELSE w

\* img.complete: true once the image is fully loaded or broken.
ImgComplete(st) == st \in {"loaded", "broken"}

\* img.addEventListener('load', resolve) / img.onload = resolve
OnLoad_lost == "pending"

OnLoad == "resolved"

\* img.addEventListener('error', resolve) / img.onerror = resolve
OnError_reject == "rejected"

OnError == "resolved"

\* setTimeout(resolve, 5000)
OnTimeout_ignored == "pending"

OnTimeout == "resolved"

\* The timer each pending <img> wait arms.
ImgWaitTimer_long == ImgTimeoutMs + SettleMs

ImgWaitTimer == ImgTimeoutMs

\* The timer each background-image wait arms.
BgWaitTimer == BgTimeoutMs

\* The document is loaded in the page and the pipeline is still running on
\* it; page events are not followed once exportPdf has left the try block.
PageAlive ==
  /\ browser = "open"
  /\ pc \in {"fonts", "images", "bgImages", "settle", "links", "title", "pdf"}

\* Promise.all: the join resolves once every promise of the stage has.
AllSettled_race(w) ==
  \/ \A i \in DOMAIN w : w[i] = "none"
  \/ \E i \in DOMAIN w : w[i] = "resolved"

AllSettled(w) == \A i \in DOMAIN w : w[i] \in {"none", "resolved"}
AnyRejected(w) == \E i \in DOMAIN w : w[i] = "rejected"

\* await page.evaluate(async () => { await document.fonts.ready; })
StartFonts ==
  /\ CanStart("fonts")
  /\ Started("fonts")
  /\ fontsElapsed' = 0
  /\ UNCHANGED <<io, doc, links, browser, fontsReady, imgs, bgs, settleTimer, gotoTimer,
                 timedElapsed, stageElapsed>>

ReturnFonts ==
  /\ "fonts" \in inflight
  /\ fontsReady
  /\ Returned("fonts")
  /\ UNCHANGED <<io, doc, links, browser, fontsReady, imgs, bgs, settleTimer, gotoTimer, clocks>>

\* The browser finishes loading (or giving up on) the fonts.
FontsBecomeReady ==
  /\ PageAlive
  /\ ~fontsReady
  /\ fontsReady' = TRUE
  /\ UNCHANGED <<ctl, io, doc, links, browser, imgs, bgs, settleTimer, gotoTimer, clocks>>

\* await page.evaluate(async () => { await Promise.all(images.map(...)) })
StartImages ==
  /\ CanStart("images")
  /\ Started("images")
  /\ imgWait' = [i \in Imgs |-> IF i > nImg THEN "none"
                                 ELSE IF ImgComplete(img[i]) THEN "resolved"
                                 ELSE "pending"]
  /\ imgTimer' = [i \in Imgs |-> IF i <= nImg /\ ~ImgComplete(img[i])
                                  THEN ImgWaitTimer ELSE -1]
  /\ timedElapsed' = 0
  /\ stageElapsed' = 0
  /\ UNCHANGED <<io, doc, links, browser, fontsReady, img, bgs, settleTimer, gotoTimer, fontsElapsed>>

ReturnImages ==
  /\ "images" \in inflight
  /\ AllSettled(imgWait)
  /\ Returned("images")
  /\ UNCHANGED <<io, doc, links, browser, fontsReady, imgs, bgs, settleTimer, gotoTimer, clocks>>

\* An <img> finishes loading: 'load' is delivered to the listeners, if any.
ImgLoads(i) ==
  /\ PageAlive
  /\ img[i] = "loading"
  /\ img' = [img EXCEPT ![i] = "loaded"]
  /\ imgWait' = [imgWait EXCEPT ![i] = Settle(@, OnLoad)]
  /\ UNCHANGED <<ctl, io, doc, links, browser, fontsReady, imgTimer, bgs, settleTimer, gotoTimer, clocks>>

\* An <img> fails to load: 'error' is delivered to the listeners, if any.
ImgFails(i) ==
  /\ PageAlive
  /\ img[i] = "loading"
  /\ img' = [img EXCEPT ![i] = "broken"]
  /\ imgWait' = [imgWait EXCEPT ![i] = Settle(@, OnError)]
  /\ UNCHANGED <<ctl, io, doc, links, browser, fontsReady, imgTimer, bgs, settleTimer, gotoTimer, clocks>>

\* The 5 s timer of an <img> wait fires (-2: fired).
ImgTimerFires(i) ==
  /\ PageAlive
  /\ imgTimer[i] = 0
  /\ imgTimer' = [imgTimer EXCEPT ![i] = -2]
  /\ imgWait' = [imgWait EXCEPT ![i] = Settle(@, OnTimeout)]
  /\ UNCHANGED <<ctl, io, doc, links, browser, fontsReady, img, bgs, settleTimer, gotoTimer, clocks>>

\* await page.evaluate(async () => { ...; await Promise.all(bgImages.map(...)) })
\* Each discovered URL gets a new Image() whose load starts at img.src = url.
StartBg ==
  /\ CanStart("bgImages")
  /\ Started("bgImages")
  /\ bgImg' = [j \in Bgs |-> IF j <= nBg THEN "loading" ELSE "unloaded"]
  /\ bgWait' = [j \in Bgs |-> IF j <= nBg THEN "pending" ELSE "none"]
  /\ bgTimer' = [j \in Bgs |-> IF j <= nBg THEN BgWaitTimer ELSE -1]
  /\ stageElapsed' = 0
  /\ UNCHANGED <<io, doc, links, browser, fontsReady, imgs, settleTimer, gotoTimer,
                 fontsElapsed, timedElapsed>>

\* The asset phase is over: its stopwatches are stopped and cleared.
ReturnBg ==
  /\ "bgImages" \in inflight
  /\ AllSettled(bgWait)
  /\ Returned("bgImages")
  /\ fontsElapsed' = -1
  /\ timedElapsed' = -1
  /\ stageElapsed' = -1
  /\ UNCHANGED <<io, doc, links, browser, fontsReady, imgs, bgs, settleTimer, gotoTimer>>

BgLoads(j) ==
  /\ PageAlive
  /\ bgImg[j] = "loading"
  /\ bgImg' = [bgImg EXCEPT ![j] = "loaded"]
  /\ bgWait' = [bgWait EXCEPT ![j] = Settle(@, OnLoad)]
  /\ UNCHANGED <<ctl, io, doc, links, browser, fontsReady, imgs, bgTimer, settleTimer, gotoTimer, clocks>>

BgFails(j) ==
  /\ PageAlive
  /\ bgImg[j] = "loading"
  /\ bgImg' = [bgImg EXCEPT ![j] = "broken"]
  /\ bgWait' = [bgWait EXCEPT ![j] = Settle(@, OnError)]
  /\ UNCHANGED <<ctl, io, doc, links, browser, fontsReady, imgs, bgTimer, settleTimer, gotoTimer, clocks>>

BgTimerFires(j) ==
  /\ PageAlive
  /\ bgTimer[j] = 0
  /\ bgTimer' = [bgTimer EXCEPT ![j] = -2]
  /\ bgWait' = [bgWait EXCEPT ![j] = Settle(@, OnTimeout)]
  /\ UNCHANGED <<ctl, io, doc, links, browser, fontsReady, imgs, bgImg, settleTimer, gotoTimer, clocks>>

\* await new Promise((resolve) => setTimeout(resolve, 1500))
StartSettle ==
  /\ CanStart("settle")
  /\ Started("settle")
  /\ settleTimer' = SettleMs
  /\ UNCHANGED <<io, doc, links, browser, fontsReady, imgs, bgs, gotoTimer, clocks>>

ReturnSettle ==
  /\ "settle" \in inflight
  /\ settleTimer = 0
  /\ settleTimer' = -2
  /\ Returned("settle")
  /\ UNCHANGED <<io, doc, links, browser, fontsReady, imgs, bgs, gotoTimer, clocks>>

\* ---------------------------------------------------------------- page.pdf
StartPdf ==
  /\ CanStart("pdf")
  /\ Started("pdf")
  /\ UNCHANGED <<io, doc, links, browser, fontsReady, imgs, bgs, settleTimer, gotoTimer, clocks>>

\* The document is rendered as it is at this moment: whatever @page size its
\* CSS declares and however long its content is.
ReturnPdf ==
  /\ "pdf" \in inflight
  /\ Returned("pdf")
  /\ \E css \in {NoPageSize} \cup PageSizes, n \in 1..MaxPages :
        files' = [files EXCEPT ![OutputPath] = PdfFile(css, n)]
  /\ UNCHANGED <<exitCode, errLog, outLog, doc, links, browser, fontsReady, imgs, bgs,
                 settleTimer, gotoTimer, clocks>>

\* console.log(`PDF exported successfully to ${outputPath}`)
LogSuccess ==
  /\ pc = "log"
  /\ outLog' = Append(outLog, OutputPath)
  /\ pc' = NextStep("log")
  /\ PageDropped
  /\ UNCHANGED <<inflight, pending, log, faults, exitCode, errLog, files, doc, links,
                 browser>>

\* ------------------------------------------------------------- failures
\* Why the promise of call s can reject: the browser or puppeteer fails
\* ("fault"), or a promise awaited inside the page rejected ("rejected").
ThrowCauses(s) ==
  {"fault"}
  \cup (IF s = "images" /\ AnyRejected(imgWait) THEN {"rejected"} ELSE {})
  \cup (IF s = "bgImages" /\ AnyRejected(bgWait) THEN {"rejected"} ELSE {})

\* A call made before the finally block rejects.
ThrowCall(s) ==
  /\ s \in inflight
  /\ \E cause \in ThrowCauses(s) :
        faults' = IF cause = "fault" THEN faults \cup {s} ELSE faults
  /\ Thrown(s)
  /\ PageDropped
  /\ UNCHANGED <<io, doc, links, browser>>

\* catch (error) { console.error('Error generating PDF:', error); throw error; }
Catch ==
  /\ pc = "catch"
  /\ errLog' = Append(errLog, <<"exportPdf", pending>>)
  /\ pending' = IF CatchRethrows THEN pending ELSE "none"
  /\ pc' = "close"
  /\ UNCHANGED <<inflight, log, faults, exitCode, outLog, files, doc, links, browser,
                 fontsReady, imgs, bgs, settleTimer, gotoTimer, clocks>>

\* finally { await browser.close(); }
StartClose ==
  /\ CanStart("close")
  /\ inflight' = inflight \cup {"close"}
  /\ log' = Append(log, <<"start", "close">>)
  /\ UNCHANGED <<pc, pending, faults, io, doc, links, browser, fontsReady, imgs, bgs,
                 settleTimer, gotoTimer, clocks>>

\* browser.close() resolves: the function returns, or rethrows the error
\* that was pending when the finally block was entered.
ReturnClose ==
  /\ pc = "close"
  /\ "close" \in inflight
  /\ inflight' = inflight \ {"close"}
  /\ log' = Append(log, <<"end", "close">>)
  /\ browser' = "closed"
  /\ pc' = IF pending = "none" THEN "returned" ELSE "rejected"
  /\ UNCHANGED <<pending, faults, io, doc, links, fontsReady, imgs, bgs, settleTimer, gotoTimer, clocks>>

\* browser.close() rejects: its error replaces any pending one.
ThrowClose ==
  /\ pc = "close"
  /\ "close" \in inflight
  /\ inflight' = inflight \ {"close"}
  /\ log' = Append(log, <<"throw", "close">>)
  /\ faults' = faults \cup {"close"}
  /\ pending' = "close"
  /\ pc' = "rejected"
  /\ UNCHANGED <<io, doc, links, browser, fontsReady, imgs, bgs, settleTimer, gotoTimer, clocks>>

\* process.exitCode = 1
ExitCodeOnFailure_unset(prev) == prev

ExitCodeOnFailure(prev) == <<FailureExitCode>>

\* exportPdf().catch((err) => { console.error(err); process.exitCode = 1; })
TopLevelCatch ==
  /\ pc = "rejected"
  /\ errLog' = Append(errLog, <<"main", pending>>)
  /\ exitCode' = ExitCodeOnFailure(exitCode)
  /\ pc' = "done"
  /\ UNCHANGED <<inflight, pending, log, faults, outLog, files, doc, links, browser,
                 fontsReady, imgs, bgs, settleTimer, gotoTimer, clocks>>

\* exportPdf() resolved: nothing is left to run and the process exits.
Exit ==
  /\ pc = "returned"
  /\ pc' = "done"
  /\ UNCHANGED <<inflight, pending, log, faults, io, doc, links, browser, fontsReady,
                 imgs, bgs, settleTimer, gotoTimer, clocks>>

\* ------------------------------------------------------------------ time
\* The awaited call can complete without any further event.
Completable(s) ==
  CASE s = "fonts" -> fontsReady
    [] s = "images" -> AllSettled(imgWait) \/ AnyRejected(imgWait)
    [] s = "bgImages" -> AllSettled(bgWait) \/ AnyRejected(bgWait)
    [] s = "settle" -> settleTimer = 0
    [] OTHER -> FALSE

FontsRunning == pc = "fonts" /\ fontsElapsed >= 0
TimedRunning == pc \in {"images", "bgImages"} /\ timedElapsed >= 0
StageRunning == pc \in {"goto", "images", "bgImages"} /\ stageElapsed >= 0

\* Time spent from the start of the fonts wait on, in the three asset waits
\* (a lower bound of it once a stopwatch has saturated).
AssetElapsed ==
  (IF fontsElapsed >= 0 THEN fontsElapsed ELSE 0)
  + (IF timedElapsed >= 0 THEN timedElapsed ELSE 0)

Dec(t) == IF t > 0 THEN t - TickMs ELSE t
Inc(t, cap) == IF t >= cap THEN t ELSE Min(cap, t + TickMs)

\* Time passes only in the waits of the pipeline.
WaitStages == {"goto", "fonts", "images", "bgImages", "settle"}

Tick ==
  /\ pc \in inflight
  /\ pc \in WaitStages
  /\ ~Completable(pc)
  /\ \A i \in Imgs : imgTimer[i] # 0
  /\ \A j \in Bgs : bgTimer[j] # 0
  /\ settleTimer # 0
  /\ gotoTimer # 0
  /\ imgTimer' = [i \in Imgs |-> Dec(imgTimer[i])]
  /\ bgTimer' = [j \in Bgs |-> Dec(bgTimer[j])]
  /\ settleTimer' = Dec(settleTimer)
  /\ gotoTimer' = Dec(gotoTimer)
  /\ fontsElapsed' = IF FontsRunning THEN Inc(fontsElapsed, FontsCap) ELSE fontsElapsed
  /\ timedElapsed' = IF TimedRunning THEN Inc(timedElapsed, ElapsedCap) ELSE timedElapsed
  /\ stageElapsed' = IF StageRunning THEN Inc(stageElapsed, StageCap) ELSE stageElapsed
  /\ <<imgTimer, bgTimer, settleTimer, gotoTimer, clocks>>'
       # <<imgTimer, bgTimer, settleTimer, gotoTimer, clocks>>
  /\ UNCHANGED <<ctl, io, doc, links, browser, fontsReady, img, imgWait, bgImg, bgWait>>

\* ------------------------------------------------------------------ Next
Next ==
  \/ ExistsCheck
  \/ StartLaunch \/ ReturnLaunch
  \/ \E s \in SimpleCalls : StartSimple(s)
  \/ \E s \in SimpleCalls : ReturnSimple(s)
  \/ StartGoto \/ ReturnGoto \/ GotoTimesOut
  \/ StartFonts \/ ReturnFonts \/ FontsBecomeReady
  \/ StartImages \/ ReturnImages
  \/ \E i \in Imgs : ImgLoads(i)
  \/ \E i \in Imgs : ImgFails(i)
  \/ \E i \in Imgs : ImgTimerFires(i)
  \/ StartBg \/ ReturnBg
  \/ \E j \in Bgs : BgLoads(j)
  \/ \E j \in Bgs : BgFails(j)
  \/ \E j \in Bgs : BgTimerFires(j)
  \/ StartSettle \/ ReturnSettle
  \/ StartPdf \/ ReturnPdf
  \/ LogSuccess
  \/ \E s \in PuppeteerCalls \ {"close"} : ThrowCall(s)
  \/ Catch
  \/ StartClose \/ ReturnClose \/ ThrowClose
  \/ TopLevelCatch
  \/ Exit
  \/ Tick

Spec == Init /\ [][Next]_vars

\* The steps the script, the event loop and the clock take on their own: a
\* call that is due is made, a call in flight settles, a due timer fires and
\* time passes.  Page events (load, error, fonts ready) and faults are the
\* environment's and carry no fairness.
Progress ==
  \/ ExistsCheck
  \/ StartLaunch \/ ReturnLaunch
  \/ \E s \in SimpleCalls : StartSimple(s)
  \/ \E s \in SimpleCalls : ReturnSimple(s)
  \/ StartGoto \/ ReturnGoto \/ GotoTimesOut
  \/ StartFonts \/ ReturnFonts
  \/ StartImages \/ ReturnImages
  \/ \E i \in Imgs : ImgTimerFires(i)
  \/ StartBg \/ ReturnBg
  \/ \E j \in Bgs : BgTimerFires(j)
  \/ StartSettle \/ ReturnSettle
  \/ StartPdf \/ ReturnPdf
  \/ LogSuccess
  \/ Catch
  \/ StartClose \/ ReturnClose
  \/ TopLevelCatch
  \/ Exit
  \/ Tick

FairSpec == Spec /\ WF_vars(Progress)

\* -------------------------------------------- the stages on their own
\* The history of a run that reached statement s without a failure.
LogBefore(s) ==
  [n \in 1..(2 * (IndexOf(s) - 2)) |->
     <<IF n % 2 = 1 THEN "start" ELSE "end", Order[1 + ((n + 1) \div 2)]>>]

\* exportPdf is about to execute statement s: the browser is open, every
\* earlier call has succeeded, and the document (without <img> elements,
\* its fonts ready) has spent no time in the earlier waits.
MidRun(s) ==
  /\ pc = s
  /\ inflight = {}
  /\ pending = "none"
  /\ exitCode = <<>>
  /\ browser = "open"
  /\ log = LogBefore(s)
  /\ errLog = <<>>
  /\ outLog = <<>>
  /\ faults = {}
  /\ htmlExists = TRUE
  /\ files = [f \in {OutputPath} |-> NoFile("absent")]
  /\ nImg = 0
  /\ fontsReady = TRUE
  /\ img = [i \in Imgs |-> "unloaded"]
  /\ imgWait = [i \in Imgs |-> "none"]
  /\ imgTimer = NoTimers(Imgs)
  /\ gotoTimer = -1

\* The anchors a document can contain: tel: links with every short number
\* over digits, '+' and blanks, mailto: links, and links the selectors do
\* not match; each without a title, with an empty one or with a title.
TelChars == {" ", "+", "1"}
TelRests == UNION {[1..n -> TelChars] : n \in 0..MaxNumLen}
MailRests == {<<>>, <<"a">>}
Hrefs ==
  {Tel \o r : r \in TelRests} \cup {Mailto \o r : r \in MailRests}
  \cup {<<"#">>, <<"T", "E", "L", ":", "1">>}
Titles == {<<>>, << <<>> >>, << <<"T">> >>}
LinkDocs == {<<Anchor(h, t)>> : h \in Hrefs, t \in Titles} \cup {CvLinks}

\* The link normalization applied to each of these documents.
LinkInit ==
  /\ MidRun("links")
  /\ elements = <<>>
  /\ links \in LinkDocs
  /\ bgImg = [j \in Bgs |-> "unloaded"]
  /\ bgWait = [j \in Bgs |-> "none"]
  /\ bgTimer = NoTimers(Bgs)
  /\ settleTimer = -2
  /\ fontsElapsed = -1
  /\ timedElapsed = -1
  /\ stageElapsed = -1

LinkNext == StartSimple("links") \/ ReturnSimple("links")

LinkSpec == LinkInit /\ [][LinkNext]_vars

\* Documents whose elements have layered backgrounds: every list of up to
\* MaxLayers gradients and url(...) layers.
LayerLists ==
  {NoBackground} \cup UNION {[1..n -> {"gradient"} \cup Urls] : n \in 1..MaxLayers}
LayeredDocs == UNION {[1..n -> LayerLists] : n \in 0..MaxBg}

\* The background-image wait applied to each of these documents.
BgInit ==
  /\ MidRun("bgImages")
  /\ elements \in LayeredDocs
  /\ links = CvLinks
  /\ bgImg = [j \in Bgs |-> "unloaded"]
  /\ bgWait = [j \in Bgs |-> "none"]
  /\ bgTimer = NoTimers(Bgs)
  /\ settleTimer = -1
  /\ fontsElapsed = 0
  /\ timedElapsed = 0
  /\ stageElapsed = 0

BgNext ==
  \/ StartBg \/ ReturnBg
  \/ \E j \in Bgs : BgLoads(j)
  \/ \E j \in Bgs : BgFails(j)
  \/ \E j \in Bgs : BgTimerFires(j)
  \/ Tick

BgSpec == BgInit /\ [][BgNext]_vars

\* ================================================================ claims
Has(e) == \E k \in 1..Len(log) : log[k] = e
SomeThrow == \E k \in 1..Len(log) : log[k][1] = "throw"
RunEnded == pc \in {"returned", "rejected", "done"}
Written == files[OutputPath]

\* C1: in every run in which puppeteer.launch returned a browser,
\* browser.close() has been called when the run ends, whichever later step
\* succeeded or threw.
C1_BrowserAlwaysClosed ==
  (RunEnded /\ Has(<<"end", "launch">>)) => Has(<<"start", "close">>)

C1_Witness ==
  /\ pc = "done"
  /\ Has(<<"end", "launch">>)
  /\ Has(<<"throw", "newPage">>)
  /\ Has(<<"start", "close">>)

\* C2: when index.html does not exist the run ends with exit code 1, page.pdf
\* is never called and no PDF is written at the output path.
C2_MissingInputFails ==
  ~htmlExists =>
    /\ ~Has(<<"start", "pdf">>)
    /\ Written.kind # "pdf"
    /\ (pc = "done" => ExitStatus = 1)

C2_Witness == pc = "done" /\ ~htmlExists /\ ExitStatus = 1 /\ Written.kind = "old"

\* C3: the existence check comes before any browser work: when index.html is
\* missing, puppeteer.launch is never called and no browser, page or
\* navigation step occurs.
C3_CheckBeforeBrowser ==
  ~htmlExists =>
    /\ browser = "none"
    /\ inflight = {}
    /\ \A k \in 1..Len(log) : log[k] = <<"throw", "check">>

C3_Witness == pc = "rejected" /\ ~htmlExists /\ pending = "check" /\ browser = "none"

\* C4 (as claimed): from the start of the fonts wait to the end of the
\* background-image wait, the elapsed time is at most the sum of the
\* per-category timeouts.
C4_Original == AssetElapsed <= ImgTimeoutMs + BgTimeoutMs

\* C4 (amended): the <img> wait takes at most 5 s and the <img> wait and the
\* background-image wait together at most 10 s, whatever assets fail or
\* never signal; the fonts wait is not covered, it has no timeout.
C4_TimedWaitsBounded ==
  /\ timedElapsed <= 10000
  /\ pc = "images" => timedElapsed <= 5000

C4_Witness ==
  /\ pc = "bgImages"
  /\ "bgImages" \in inflight
  /\ AllSettled(bgWait)
  /\ timedElapsed = 10000
  /\ \E j \in Bgs : bgImg[j] = "loading" /\ bgTimer[j] = -2

\* C5: a per-asset load failure never surfaces as an error: when no call
\* into the browser fails, nothing throws whichever images fire 'error' or
\* never fire any event, page.pdf is called and the run ends with exit code 0.
C5_AssetFailuresSwallowed ==
  (htmlExists /\ faults = {}) =>
    /\ ~SomeThrow
    /\ pending = "none"
    /\ ~AnyRejected(imgWait) /\ ~AnyRejected(bgWait)
    /\ pc = "done" => (ExitStatus = 0 /\ Has(<<"end", "pdf">>) /\ errLog = <<>>)

C5_Witness ==
  /\ pc = "log"
  /\ faults = {}
  /\ Has(<<"end", "pdf">>)
  /\ \E i \in Imgs : img[i] = "broken" /\ imgTimer[i] # -1
  /\ \E i \in Imgs : img[i] = "loading" /\ imgTimer[i] = -2
  /\ \E j \in Bgs : bgImg[j] = "broken"

C7_ExitCode ==
  pc = "done" =>
    /\ ~SomeThrow => (ExitStatus = 0 /\ errLog = <<>>)
    /\ SomeThrow =>
         /\ ExitStatus = 1
         /\ pending # "none"
         /\ Has(<<"throw", pending>>)
         /\ errLog # <<>>
         /\ errLog[Len(errLog)] = <<"main", pending>>
         /\ \A k \in 1..Len(log) :
              log[k][1] = "throw" => \E e \in 1..Len(errLog) : errLog[e][2] = log[k][2]

C7_Witness ==
  /\ pc = "done"
  /\ Has(<<"end", "pdf">>)
  /\ Has(<<"throw", "close">>)
  /\ ExitStatus = 1
  /\ errLog = << <<"main", "close">> >>

\* C8 (as claimed): the PDF's page is 210mm x 297mm whatever the content
\* length and whatever page size the document's CSS declares.
C8_Original ==
  Written.kind = "pdf" => (Written.w = 210 /\ Written.h = 297)

\* C8 (amended): the PDF's page is 210mm x 297mm with zero margins whatever
\* the content length, when the document's CSS declares no @page size or
\* declares A4; a different declared @page size wins (preferCSSPageSize).
C8_A4UnlessCssOverrides ==
  Written.kind = "pdf" =>
    /\ Written.css \in {NoPageSize, A4} => (Written.w = 210 /\ Written.h = 297)
    /\ Written.css \notin {NoPageSize, A4} => (Written.w = Written.css.w /\ Written.h = Written.css.h)
    /\ Written.margin = 0

C8_Witness ==
  /\ Written.kind = "pdf"
  /\ Written.css = NoPageSize
  /\ Written.pages > 1
  /\ Written.w = 210 /\ Written.h = 297

CallOrder == SubSeq(Order, 2, Len(Order) - 1) \o <<"close">>
CallIndex(s) == CHOOSE i \in 1..Len(CallOrder) : CallOrder[i] = s

C10_StrictOrder ==
  \A k \in 1..Len(log) :
    log[k][1] = "start" =>
      /\ \A m \in 1..(k - 1) :
            log[m][1] = "start" =>
              /\ CallIndex(log[m][2]) < CallIndex(log[k][2])
              /\ \E n \in (m + 1)..(k - 1) :
                    log[n] \in {<<"end", log[m][2]>>, <<"throw", log[m][2]>>}
      /\ log[k][2] # "close" =>
            \A i \in 1..(CallIndex(log[k][2]) - 1) :
              \E n \in 1..(k - 1) : log[n] = <<"end", CallOrder[i]>>
      /\ log[k][2] = "close" => \E n \in 1..(k - 1) : log[n] = <<"end", "launch">>

C10_Witness ==
  /\ pc = "done"
  /\ Has(<<"end", "pdf">>)
  /\ Has(<<"end", "close">>)
  /\ Len(log) = 2 * Len(CallOrder)

\* C11: the <img> wait and the background-image wait are all-must-settle
\* joins with an independent 5 s timeout per asset: once a stage has
\* completed, every asset of it has settled (it was complete, fired 'load'
\* or 'error', or its own timer fired), and a stage never lasts longer than
\* 5 s, however many assets never signal.
PastStage(s) ==
  pc \in {Order[k] : k \in 1..Len(Order)} /\ IndexOf(pc) > IndexOf(s)

C11_JoinWithinTimeout ==
  /\ pc \in {"images", "bgImages"} => stageElapsed <= 5000
  /\ PastStage("images") =>
        \A i \in Imgs : i <= nImg =>
          (imgWait[i] = "resolved" /\ (ImgComplete(img[i]) \/ imgTimer[i] = -2))
  /\ PastStage("bgImages") =>
        \A j \in Bgs : j <= nBg =>
          (bgWait[j] = "resolved" /\ (ImgComplete(bgImg[j]) \/ bgTimer[j] = -2))

C11_Witness ==
  /\ pc = "images"
  /\ "images" \in inflight
  /\ AllSettled(imgWait)
  /\ stageElapsed = 5000
  /\ \A i \in Imgs : img[i] = "loading" /\ imgTimer[i] = -2

\* C12: navigation is bounded by the 30 s timeout of page.goto; when it
\* fires, no later step (asset waits, link normalization, page.pdf) runs,
\* browser.close is called and the run ends with exit code 1; and no other
\* timer of the pipeline ever makes a step fail.
C12_NavigationTimeout ==
  /\ pc = "goto" => stageElapsed <= 30000
  /\ "gotoTimeout" \in faults =>
        /\ \A k \in 1..Len(log) :
              log[k][1] = "start" =>
                log[k][2] \in {"launch", "newPage", "setViewport",
                               "emulateMediaType", "goto", "close"}
        /\ Written.kind # "pdf"
        /\ RunEnded => Has(<<"start", "close">>)
        /\ pc = "done" => ExitStatus = 1
  /\ \A k \in 1..Len(log) :
        log[k][1] = "throw" =>
          \/ log[k][2] = "check"
          \/ log[k][2] \in faults
          \/ log[k][2] = "goto" /\ "gotoTimeout" \in faults

C12_Witness ==
  /\ pc = "done"
  /\ "gotoTimeout" \in faults
  /\ Has(<<"end", "close">>)
  /\ ExitStatus = 1

\* C13: when the link normalization completes, the href of every anchor
\* whose href began with "tel:" starts with "tel:+": the number left after
\* removing "tel:" and trimming is kept as it is when it starts with '+',
\* and gets exactly one '+' prepended otherwise; normalizing the anchors a
\* second time leaves each such href unchanged.
C13_TelInternational ==
  [][log' = Append(log, <<"end", "links">>) =>
       \A k \in DOMAIN links :
         IsTelLink(links[k]) =>
           LET href == links[k].href
               number == Trim(SubSeq(href, Len(Tel) + 1, Len(href)))
           IN /\ StartsWith(links'[k].href, Tel \o Plus)
              /\ links'[k].href = IF StartsWith(number, Plus)
                                  THEN Tel \o number
                                  ELSE Tel \o Plus \o number
              /\ NormalizeLinks(links')[k].href = links'[k].href]_vars

C13_Witness ==
  /\ pc = "title"
  /\ Has(<<"end", "links">>)
  /\ \E k \in DOMAIN links :
        /\ links[k].dataPhone = << <<"1">> >>
        /\ links[k].href = Tel \o <<"+", "1">>

\* C14: when the link normalization completes, every tel: and mailto:
\* anchor has a non-empty title; an anchor that had a non-empty title
\* before keeps it; and the href of a mailto: anchor is what it was.
C14_TitlesAdded ==
  [][log' = Append(log, <<"end", "links">>) =>
       \A k \in DOMAIN links :
         (IsTelLink(links[k]) \/ IsMailtoLink(links[k])) =>
           /\ links'[k].title # <<>>
           /\ links'[k].title[1] # <<>>
           /\ (links[k].title # <<>> /\ links[k].title[1] # <<>>)
                 => links'[k].title = links[k].title
           /\ IsMailtoLink(links[k]) => links'[k].href = links[k].href]_vars

C14_Witness ==
  /\ pc = "title"
  /\ Has(<<"end", "links">>)
  /\ \E k \in DOMAIN links :
        /\ IsMailtoLink(links[k])
        /\ links[k].title = << <<"T">> >>
        /\ links[k].clickable
  /\ \E k \in DOMAIN links :
        /\ IsTelLink(links[k])
        /\ links[k].title = <<CallPrefix \o <<"1">>>>

\* C15: once the background-image wait has completed, every URL in the
\* computed background-image of every element, each layer of a layered
\* background included, has been loaded through a new Image and awaited.
C15_Original ==
  PastStage("bgImages") =>
    \A e \in DOMAIN elements :
      \A l \in DOMAIN elements[e] :
        elements[e][l] \in Urls =>
          \E j \in 1..nBg :
            bgImages[j] = elements[e][l] /\ bgWait[j] = "resolved"

\* C16: no load event is lost in the asset waits: an <img> or a background
\* image that has finished loading while its 5 s timer had not fired yet has
\* settled its wait, by the img.complete check or by its 'load' handler.
C16_NoLoadLost ==
  /\ \A i \in Imgs :
        (img[i] = "loaded" /\ imgWait[i] # "none" /\ imgTimer[i] # -2)
          => imgWait[i] = "resolved"
  /\ \A j \in Bgs :
        (bgImg[j] = "loaded" /\ bgWait[j] # "none" /\ bgTimer[j] # -2)
          => bgWait[j] = "resolved"

C16_Witness ==
  /\ pc = "bgImages"
  /\ \E j \in Bgs :
        bgImg[j] = "loaded" /\ bgTimer[j] > 0 /\ bgWait[j] = "resolved"
  /\ \E i \in Imgs :
        img[i] = "loaded" /\ imgTimer[i] > 0 /\ imgWait[i] = "resolved"

\* C17: a 'load' or 'error' event or a 5 s timer that fires after its
\* asset's promise has resolved (possibly after the stage's join completed:
\* the timers are never cleared) changes neither the position of the
\* pipeline, its history, its pending calls nor any promise; and no step of
\* the pipeline starts or completes more than once.
LateCallback ==
  \/ \E i \in Imgs :
        /\ imgWait[i] = "resolved"
        /\ \/ img[i] = "loading" /\ img'[i] \in {"loaded", "broken"}
           \/ imgTimer[i] = 0 /\ imgTimer'[i] = -2
  \/ \E j \in Bgs :
        /\ bgWait[j] = "resolved"
        /\ \/ bgImg[j] = "loading" /\ bgImg'[j] \in {"loaded", "broken"}
           \/ bgTimer[j] = 0 /\ bgTimer'[j] = -2

C17_LateCallbacksIgnored ==
  /\ [](\A s \in PuppeteerCalls \cup {"settle"} :
          \A e \in {"start", "end"} :
            Cardinality({k \in 1..Len(log) : log[k] = <<e, s>>}) <= 1)
  /\ [][LateCallback => UNCHANGED <<ctl, io, browser, imgWait, bgWait>>]_vars

C17_Witness ==
  /\ pc = "pdf"
  /\ "pdf" \in inflight
  /\ \E j \in Bgs :
        bgImg[j] = "loaded" /\ bgTimer[j] = -2 /\ bgWait[j] = "resolved"

\* C18: the output file is written only by page.pdf, and only when every
\* earlier step has succeeded: once the existence check, launch, newPage,
\* setViewport, emulateMediaType, goto, an asset wait, the link
\* normalization or the title set has thrown, page.pdf is never called and
\* the file is what it was before the run.
StepsBeforePdf == {Order[k] : k \in 1..(IndexOf("pdf") - 1)}

C18_OnlyPdfWrites ==
  /\ []((\E k \in 1..Len(log) :
            log[k][1] = "throw" /\ log[k][2] \in StepsBeforePdf)
          => (~Has(<<"start", "pdf">>) /\ Written.kind # "pdf"))
  /\ [][files' # files =>
          /\ "pdf" \in inflight
          /\ ~SomeThrow
          /\ \A s \in StepsBeforePdf \ {"check"} : Has(<<"end", s>>)]_vars

C18_Witness ==
  /\ pc = "done"
  /\ Has(<<"throw", "title">>)
  /\ ~Has(<<"start", "pdf">>)
  /\ Written.kind = "old"
  /\ ExitStatus = 1

====
